---- MODULE Spec2Model ----
(***************************************************************************)
(* State-machine model of the site extractors: Vimeo session and token     *)
(* handling, the Vimeo album playlist and the URL pattern of VimeoIE       *)
(* (vimeo.py), the WrestleUniverse VOD and PPV extractions with their      *)
(* token cookie and key exchange (wrestleuniverse.py), the request         *)
(* sequences of GoIE (go.py), and the login, initialization and signed     *)
(* requests of WeverseIE (weverse.py).                                     *)
(*                                                                         *)
(* The program is single threaded: `cur` names the extractor instance that *)
(* runs an operation (pc = "idle" when control is with the caller), every  *)
(* HTTP request is a record in `inflight` from the moment it is sent until *)
(* its response has been processed, and the clock `now` (int(time.time())) *)
(* advances between the steps.  A run is given the URLs of one site.       *)
(***************************************************************************)
EXTENDS Integers, Sequences, FiniteSets, TLC

VARIABLES
    now,            \* int(time.time())
    cookiejar,      \* the downloader's cookie jar, keyed by cookie name only
    loggedIn,       \* whether the Vimeo session of the jar belongs to a logged-in user
    JSON_WEB_TOKEN, \* per instance: self._JSON_WEB_TOKEN (0: attribute not set)
    XSRF_TOKEN,     \* per instance: self._XSRF_TOKEN (0: attribute not set)
    TOKEN_EXPIRY,   \* per instance: self._TOKEN_EXPIRY (None after a JWT without exp)
    fetched,        \* number of viewer responses served so far (names the tokens)
    lastFetch,      \* per instance: the token id of its most recent viewer fetch
    checkTime,      \* clock value read by the last _refresh_tokens
    fetchedInCall,  \* the last _refresh_tokens asked for a viewer
    cur,            \* the instance whose operation runs or ran last ("" at the start)
    pc,             \* position of the running operation ("idle": none is running)
    cont,           \* the caller _refresh_tokens/_call_api returns to
    inflight,       \* HTTP requests sent and not yet answered
    result,         \* outcome of the operation that runs or ran last
    album,          \* the album as the server holds it
    videopassword,  \* the 'videopassword' parameter
    hashed_pass,    \* hashed_pass bound into functools.partial(self._fetch_page, ...)
    page,           \* next 0-based page OnDemandPagedList will ask for
    entries,        \* playlist entries yielded so far
    authHash,       \* hash returned by the showcase auth endpoint (0: none)
    sent,           \* requests of each kind sent by the album extraction so far
    site,           \* the site whose URLs this run of the downloader is given
    keys,           \* the RSA key pairs generated so far, in order
    private_key,    \* private_key of _call_public_key_api (0: none generated yet)
    video_data,     \* the watchArchive response of the PPV extraction
    info,           \* the info dict the PPV extraction returns
    warnings,       \* the warnings the extraction that runs or ran last reported
    stage,          \* how far the WrestleUniverse extraction that runs or ran last has come
    m3u8_formats,   \* the formats of the m3u8 playlist as _extract_m3u8_formats returned them
    auth_error,     \* the ExtractorError _raise_proper_auth_error raised (NoAuthError: none)
    go,             \* locals of GoIE._real_extract, its playlist and the requests it has sent
    wv,             \* locals of WeverseIE._real_extract: streams left, formats
    AUTH_TOKEN,     \* WeverseIE._AUTH_TOKEN (None: not set, 0: the empty string)
    WEV_DEVICE_ID,  \* WeverseIE._WEV_DEVICE_ID (None: not set)
    device_arg,     \* the 'device' extractor argument of the run (None: not given)
    login,          \* locals of WeverseIE._perform_login: hasPassword, accessToken
    vimeo_url,      \* the URL VimeoIE is asked about
    mobj            \* the groups of the match of VimeoIE._VALID_URL on it

tokenVars == <<JSON_WEB_TOKEN, XSRF_TOKEN, TOKEN_EXPIRY, lastFetch>>
callVars == <<checkTime, fetchedInCall>>
albumVars == <<album, videopassword, hashed_pass, page, entries, authHash, sent>>
vimeoVars == <<loggedIn, tokenVars, fetched, callVars, cont, albumVars>>
wuVars == <<keys, private_key, video_data, info, warnings, stage, m3u8_formats,
           auth_error>>
\* what no Vimeo operation touches
wvAuth == <<AUTH_TOKEN, WEV_DEVICE_ID, device_arg, login>>
matchVars == <<vimeo_url, mobj>>
otherVars == <<site, wuVars, go, wv, wvAuth, matchVars>>
\* what no WrestleUniverse, no Go, no Weverse operation touches
notWU == <<vimeoVars, go, wv, wvAuth, matchVars>>
notGo == <<vimeoVars, wuVars, wv, wvAuth, matchVars>>
notWv == <<vimeoVars, wuVars, go, matchVars>>
vars == <<now, cookiejar, cur, pc, inflight, result, vimeoVars, otherVars>>

(***************************************************************************)
(* Bounds of the model.                                                    *)
(***************************************************************************)
MaxTime == 2
MaxFetch == 2
MaxFullPages == 1
MaxHash == 1
MaxKeys == 2
MaxSecret == 2
MaxFormats == 1
MaxAssets == 2
MaxVideos == 2
MaxStreams == 2
MaxUrlLen == 256
MaxIdLen == 2

(***************************************************************************)
(* Program constants.                                                      *)
(***************************************************************************)
PAGE_SIZE == 100
TOKEN_EXPIRY_DEFAULT == 0
URL_LIMIT == 255
HASH_LEN == 10

None == 0 - 1
Min(a, b) == IF a <= b THEN a ELSE b

VimeoIEs == {"VimeoAlbum", "VimeoWatchLater"}
LOGIN_REQUIRED(i) == i = "VimeoWatchLater"

(***************************************************************************)
(* The environment: what the servers may answer.                           *)
(***************************************************************************)
\* exp claims a viewer JWT may carry: none at all, 0, or a point in time
ExpValues == {None} \cup (0 .. MaxTime + 1)
AlbumSizes == {PAGE_SIZE * q + r : q \in 0 .. MaxFullPages, r \in {0, 1}}
\* the video that may lack a 'link': the first
NoLinkCandidates(n) == {1} \cap (1 .. n)
\* the videos 1 .. n of an album, and those among them without a 'link'
AlbumVideos == {[n |-> n, nolink |-> s] : n \in AlbumSizes, s \in SUBSET {1}}
ValidAlbumVideos == {a \in AlbumVideos : a.nolink \subseteq NoLinkCandidates(a.n)}
NoAlbum == [n |-> 0, nolink |-> {}, privacy |-> "anybody"]
NothingSent == [info |-> 0, auth |-> 0, page |-> 0]

\* the videos of API page api_page (1-based) with per_page videos a page
ApiPageVideos(alb, api_page, per_page) ==
    LET lo == (api_page - 1) * per_page + 1
        hi == Min(alb.n, api_page * per_page)
    IN  [k \in 1 .. (hi - lo + 1) |-> lo + k - 1]
ApiPageExists(alb, api_page, per_page) ==
    api_page >= 1 /\ (api_page = 1 \/ (api_page - 1) * per_page < alb.n)

(***************************************************************************)
(* Requests.                                                               *)
(***************************************************************************)
Req(i, kind) ==
    [ie |-> i, kind |-> kind, jwt |-> 0, expiry |-> 0, at |-> now, token |-> 0,
     password |-> "", page |-> 0, per_page |-> 0, hashed_pass |-> 0]
RequestsOf(i) == {r \in inflight : r.ie = i}

(***************************************************************************)
(* VimeoBaseIE                                                             *)
(***************************************************************************)
HasSession == cookiejar.vuid # 0

\* the test of _refresh_tokens: None > int raises TypeError
ExpiryUnordered(i) == HasSession /\ TOKEN_EXPIRY[i] = None
TokensFresh_IgnoreExpiry(i) == HasSession
TokensFresh(i) == HasSession /\ TOKEN_EXPIRY[i] > now

AfterRefresh(i) == IF cont = "login" THEN "login_send" ELSE "api_send"

Raise(i, what) ==
    /\ pc' = "idle"
    /\ result' = what
    /\ cur' = i

\* _refresh_tokens up to the viewer request
RefreshTokens(i) ==
    /\ cur = i /\ pc = "refresh"
    /\ checkTime' = now
    /\ IF ExpiryUnordered(i)
       THEN /\ Raise(i, "TypeError")
            /\ UNCHANGED <<inflight, fetchedInCall>>
       ELSE IF TokensFresh(i)
       THEN /\ pc' = AfterRefresh(i)
            /\ fetchedInCall' = FALSE
            /\ UNCHANGED <<inflight, result, cur>>
       ELSE /\ inflight' = inflight \cup {Req(i, "viewer")}
            /\ pc' = "viewer_wait"
            /\ fetchedInCall' = TRUE
            /\ UNCHANGED <<result, cur>>
    /\ UNCHANGED <<otherVars, now, cookiejar, loggedIn, tokenVars, fetched, cont, albumVars>>

StoreViewerToken_OnClass(i, id, exp) ==
    /\ JSON_WEB_TOKEN' = [j \in VimeoIEs |-> id]
    /\ TOKEN_EXPIRY' = [j \in VimeoIEs |-> exp]
    /\ lastFetch' = [lastFetch EXCEPT ![i] = id]

\* what the viewer response stores before the expiry is validated
StoreViewerToken(i, id, exp) ==
    /\ JSON_WEB_TOKEN' = [JSON_WEB_TOKEN EXCEPT ![i] = id]
    /\ TOKEN_EXPIRY' = [TOKEN_EXPIRY EXCEPT ![i] = exp]
    /\ lastFetch' = [lastFetch EXCEPT ![i] = id]

\* 'if not self._TOKEN_EXPIRY'
ExpiryMissing(exp) == exp = None \/ exp = 0

\* _refresh_tokens from the viewer response on
ViewerResponse(i) ==
    /\ cur = i /\ pc = "viewer_wait"
    /\ fetched < MaxFetch
    /\ inflight' = inflight \ RequestsOf(i)
    /\ \E exp \in ExpValues :
         LET id == fetched + 1 IN
         /\ fetched' = id
         /\ StoreViewerToken(i, id, exp)
         /\ IF ExpiryMissing(exp)
            THEN /\ Raise(i, "There was a problem with the token cookie")
                 /\ UNCHANGED <<XSRF_TOKEN, cookiejar>>
            ELSE /\ XSRF_TOKEN' = [XSRF_TOKEN EXCEPT ![i] = id]
                 /\ cookiejar' = [cookiejar EXCEPT !.vuid = id]
                 /\ pc' = AfterRefresh(i)
                 /\ UNCHANGED <<result, cur>>
    /\ UNCHANGED <<otherVars, now, loggedIn, callVars, cont, albumVars>>

\* the viewer request fails: _download_json raises
ViewerError(i) ==
    /\ cur = i /\ pc = "viewer_wait"
    /\ inflight' = inflight \ RequestsOf(i)
    /\ Raise(i, "Unable to download JSON metadata")
    /\ UNCHANGED <<otherVars, now, cookiejar, loggedIn, tokenVars, fetched, callVars, cont,
                   albumVars>>

ApiRequest_NoHashedPass(i) ==
    [Req(i, IF cont = "info" THEN "api_info" ELSE "api_page") EXCEPT
        !.jwt = JSON_WEB_TOKEN[i],
        !.expiry = TOKEN_EXPIRY[i],
        !.page = IF cont = "page" THEN page + 1 ELSE 0,
        !.per_page = IF cont = "page" THEN PAGE_SIZE ELSE 0]

\* _call_api: the request to api.vimeo.com, sent once _refresh_tokens returned
ApiRequest(i) ==
    [Req(i, IF cont = "info" THEN "api_info" ELSE "api_page") EXCEPT
        !.jwt = JSON_WEB_TOKEN[i],
        !.expiry = TOKEN_EXPIRY[i],
        !.page = IF cont = "page" THEN page + 1 ELSE 0,
        !.per_page = IF cont = "page" THEN PAGE_SIZE ELSE 0,
        !.hashed_pass = IF cont = "page" THEN hashed_pass ELSE 0]

ApiSend(i) ==
    /\ cur = i /\ pc = "api_send"
    /\ inflight' = inflight \cup {ApiRequest(i)}
    /\ pc' = "api_wait"
    /\ sent' = [sent EXCEPT ![cont] = @ + 1]
    /\ UNCHANGED <<otherVars, now, cookiejar, loggedIn, tokenVars, fetched, callVars, cur, cont,
                   result, album, videopassword, hashed_pass, page, entries, authHash>>

\* a new operation starts: nothing of the last call and album extraction is kept
ForgetLocals ==
    /\ checkTime' = 0 /\ fetchedInCall' = FALSE
    /\ album' = NoAlbum /\ videopassword' = ""
    /\ hashed_pass' = 0 /\ page' = 0 /\ entries' = << >>
    /\ authHash' = 0 /\ sent' = NothingSent

\* _perform_login
StartLogin(i) ==
    /\ site = "vimeo" /\ pc = "idle"
    /\ cur' = i
    /\ cont' = "login"
    /\ pc' = "refresh"
    /\ result' = "running"
    /\ ForgetLocals
    /\ UNCHANGED <<otherVars, now, cookiejar, loggedIn, tokenVars, fetched, inflight>>

LoginSend(i) ==
    /\ cur = i /\ pc = "login_send"
    /\ inflight' = inflight \cup {[Req(i, "login") EXCEPT !.token = XSRF_TOKEN[i]]}
    /\ pc' = "login_wait"
    /\ UNCHANGED <<otherVars, now, cookiejar, loggedIn, tokenVars, fetched, callVars, cur, cont,
                   result, albumVars>>

LoginResponse(i) ==
    /\ cur = i /\ pc = "login_wait"
    /\ inflight' = inflight \ RequestsOf(i)
    /\ \E answer \in {"ok", "418", "error"} :
         /\ loggedIn' = (loggedIn \/ answer = "ok")
         /\ Raise(i, CASE answer = "ok" -> "logged in"
                       [] answer = "418" -> "Unable to log in: bad username or password"
                       [] OTHER -> "Unable to log in")
    /\ UNCHANGED <<otherVars, now, cookiejar, tokenVars, fetched, callVars, cont, albumVars>>

\* _real_initialize
LoginRequiredError(i) == LOGIN_REQUIRED(i) /\ ~HasSession

RealInitialize(i) ==
    /\ site = "vimeo" /\ pc = "idle"
    /\ cur' = i
    /\ cont' = "init"
    /\ result' = IF LoginRequiredError(i) THEN "login required" ELSE "initialized"
    /\ ForgetLocals
    /\ UNCHANGED <<otherVars, now, cookiejar, loggedIn, tokenVars, fetched, pc, inflight>>

(***************************************************************************)
(* VimeoAlbumIE                                                            *)
(***************************************************************************)
Alb == "VimeoAlbum"

\* _real_extract up to the first step of _call_api('albums/<id>')
StartAlbum ==
    /\ site = "vimeo" /\ pc = "idle"
    /\ cur' = Alb
    /\ cont' = "info"
    /\ pc' = "refresh"
    /\ result' = "running"
    /\ ForgetLocals
    /\ UNCHANGED <<otherVars, now, cookiejar, loggedIn, tokenVars, fetched, inflight>>

\* playlist_result(OnDemandPagedList(...)): the pages are fetched on demand, from
\* the videos the album holds when its enumeration starts
ReturnPlaylist(privacy, hash) ==
    /\ hashed_pass' = hash
    /\ \E a \in ValidAlbumVideos :
         album' = [n |-> a.n, nolink |-> a.nolink, privacy |-> privacy]
    /\ pc' = "suspended"
    /\ result' = "playlist"
    /\ cur' = Alb

PasswordProtected(alb) == alb.privacy = "password"

\* _get_album_info from the album response to the showcase auth request; the
\* 'videopassword' parameter is read when the album turns out to be protected
AlbumInfoResponse ==
    /\ cur = Alb /\ pc = "api_wait" /\ cont = "info"
    /\ \E answer \in {"anybody", "password", "other", "error"}, pw \in {"", "good", "bad"} :
         CASE answer = "error" ->
                /\ Raise(Alb, "Unable to download JSON metadata")
                /\ inflight' = inflight \ RequestsOf(Alb)
                /\ UNCHANGED <<album, videopassword, hashed_pass, sent>>
           [] answer = "other" ->
                /\ Raise(Alb, "Incorrect data for album")
                /\ inflight' = inflight \ RequestsOf(Alb)
                /\ UNCHANGED <<album, videopassword, hashed_pass, sent>>
           [] answer = "anybody" ->
                /\ ReturnPlaylist(answer, 0)
                /\ inflight' = inflight \ RequestsOf(Alb)
                /\ UNCHANGED <<videopassword, sent>>
           [] OTHER ->
                /\ album' = [album EXCEPT !.privacy = answer]
                /\ videopassword' = pw
                /\ IF pw = ""
                   THEN /\ Raise(Alb, "This video is protected by a password")
                        /\ inflight' = inflight \ RequestsOf(Alb)
                        /\ UNCHANGED <<hashed_pass, sent>>
                   ELSE /\ inflight' = (inflight \ RequestsOf(Alb)) \cup
                               {[Req(Alb, "auth") EXCEPT !.password = pw,
                                                         !.token = XSRF_TOKEN[Alb]]}
                        /\ sent' = [sent EXCEPT !.auth = @ + 1]
                        /\ pc' = "auth_wait"
                        /\ UNCHANGED <<hashed_pass, result, cur>>
    /\ UNCHANGED <<otherVars, now, cookiejar, loggedIn, tokenVars, fetched, callVars, cont,
                   page, entries, authHash>>

\* the showcase auth endpoint answers
AlbumAuthResponse ==
    /\ cur = Alb /\ pc = "auth_wait"
    /\ inflight' = inflight \ RequestsOf(Alb)
    /\ \E r \in RequestsOf(Alb) :
         \/ /\ r.password = "good"
            /\ \E h \in 1 .. MaxHash :
                 /\ authHash' = h
                 /\ ReturnPlaylist(album.privacy, h)
         \/ /\ r.password # "good"
            /\ Raise(Alb, "Wrong password")
            /\ UNCHANGED <<album, hashed_pass, authHash>>
         \/ /\ Raise(Alb, "Unable to download JSON metadata")
            /\ UNCHANGED <<album, hashed_pass, authHash>>
    /\ UNCHANGED <<otherVars, now, cookiejar, loggedIn, tokenVars, fetched, callVars, cont,
                   videopassword, page, entries, sent>>

FetchPage_Prefetch ==
    /\ cur = Alb
    /\ \/ /\ pc = "suspended"
          /\ cont' = "page"
          /\ pc' = "refresh"
          /\ UNCHANGED inflight
       \/ /\ pc = "api_wait" /\ cont = "page"
          /\ inflight' = inflight \cup {[ApiRequest(Alb) EXCEPT !.page = page + 2]}
          /\ UNCHANGED <<cont, pc>>
    /\ UNCHANGED <<otherVars, now, cookiejar, loggedIn, tokenVars, fetched, callVars,
                   cur, result, albumVars>>

\* OnDemandPagedList asks _fetch_page for the next page
FetchPage ==
    /\ cur = Alb /\ pc = "suspended"
    /\ page <= MaxFullPages + 2
    /\ cur' = Alb
    /\ cont' = "page"
    /\ pc' = "refresh"
    /\ UNCHANGED <<otherVars, now, cookiejar, loggedIn, tokenVars, fetched, callVars, inflight,
                   result, albumVars>>

\* _fetch_page: 'if not link: continue'
HasLink(alb, v) == v \notin alb.nolink
PageEntries(alb, videos) == SelectSeq(videos, LAMBDA v : HasLink(alb, v))

\* OnDemandPagedList._getslice: a page that is not full is taken to be the last
LastPage(page_results) == Len(page_results) < PAGE_SIZE

PageDone(page_results) ==
    /\ entries' = entries \o page_results
    /\ IF LastPage(page_results)
       THEN /\ pc' = "idle"
            /\ result' = "done"
            /\ UNCHANGED page
       ELSE /\ pc' = "suspended"
            /\ page' = page + 1
            /\ UNCHANGED result
    /\ cur' = Alb

\* _fetch_page from the response on, and the end of the page in _getslice
AlbumPageResponse ==
    /\ cur = Alb /\ pc = "api_wait" /\ cont = "page"
    /\ inflight' = inflight \ RequestsOf(Alb)
    /\ \E r \in RequestsOf(Alb) :
         \/ /\ ApiPageExists(album, r.page, r.per_page)
            /\ PageDone(PageEntries(album, ApiPageVideos(album, r.page, r.per_page)))
         \/ /\ ~ApiPageExists(album, r.page, r.per_page)
            /\ \E answer \in {"400", "empty"} : PageDone(<< >>)
         \/ /\ Raise(Alb, "Unable to download JSON metadata")
            /\ UNCHANGED <<page, entries>>
    /\ UNCHANGED <<otherVars, now, cookiejar, loggedIn, tokenVars, fetched, callVars, cont,
                   album, videopassword, hashed_pass, authHash, sent>>

(***************************************************************************)
(* VimeoIE._VALID_URL                                                      *)
(*                                                                         *)
(* A URL is its scheme, its host and the characters of its path after the  *)
(* first '/'.  re.match: the pattern has to match a prefix of the URL.     *)
(***************************************************************************)
\* \d and [\da-f]
IsDigit(c) == c \in {"0", "1", "2", "3", "4", "5", "6", "7", "8", "9"}
HashChar_NoDigit(c) == c \in {"a", "b", "c", "d", "e", "f"}
HashChar(c) == IsDigit(c) \/ c \in {"a", "b", "c", "d", "e", "f"}

\* 'https?://(?:www\.)?vimeo\.com/'
PrefixMatches(u) ==
    u.scheme \in {"http", "https"} /\ u.host \in {"vimeo.com", "www.vimeo.com"}
\* '\d+', greedy: the number of digits the path begins with
RECURSIVE Digits(_, _)
Digits(path, n) ==
    IF n < Len(path) /\ IsDigit(path[n + 1]) THEN Digits(path, n + 1) ELSE n
\* '(?:/(?P<unlisted_hash>[\da-f]{10}))?' tried after the n characters of the id
HashMatches(path, n) ==
    /\ Len(path) >= n + 1 + HASH_LEN
    /\ path[n + 1] = "/"
    /\ \A k \in n + 2 .. n + 1 + HASH_LEN : HashChar(path[k])

\* no match, and the groups of a match (<< >>: the group took no part in it)
NoMatch == [id |-> << >>, unlisted_hash |-> << >>]
\* the pattern on a URL: the id takes every digit, and with that the rest of
\* the pattern, which is optional, matches
Match(u) ==
    LET n == Digits(u.path, 0) IN
    IF ~PrefixMatches(u) \/ n = 0 THEN NoMatch
    ELSE [id |-> SubSeq(u.path, 1, n),
          unlisted_hash |-> IF HashMatches(u.path, n)
                            THEN SubSeq(u.path, n + 2, n + 1 + HASH_LEN)
                            ELSE << >>]

\* the URLs asked about: an id of digits, and perhaps '/' and a segment of 9 to 11
\* characters that are all the same but one
Ids == UNION {[1 .. n -> {"5", "8"}] : n \in 1 .. MaxIdLen}
Segments ==
    {[k \in 1 .. n |-> IF k = p THEN odd ELSE fill] :
        n \in HASH_LEN - 1 .. HASH_LEN + 1, p \in 1 .. HASH_LEN + 1,
        fill \in {"9", "a"}, odd \in {"0", "f", "g"}}
NoUrl == [scheme |-> "", host |-> "", path |-> << >>]
VimeoUrls ==
    {[scheme |-> sch, host |-> h, path |-> path] :
        sch \in {"http", "https"},
        h \in {"vimeo.com", "www.vimeo.com", "player.vimeo.com"},
        path \in Ids \cup {id \o <<"/">> \o seg : id \in Ids, seg \in Segments}}

\* VimeoIE.suitable(url) / _match_valid_url(url)
MatchValidUrl ==
    /\ site = "vimeo video" /\ pc = "idle"
    /\ mobj' = Match(vimeo_url)
    /\ result' = IF Match(vimeo_url) = NoMatch THEN "unsuitable" ELSE "suitable"
    /\ cur' = "Vimeo"
    /\ UNCHANGED <<now, cookiejar, pc, inflight, vimeoVars, site, wuVars, go, wv,
                   wvAuth, vimeo_url>>

(***************************************************************************)
(* WrestleUniverseBaseIE                                                   *)
(***************************************************************************)
\* a request: 'authorization' is the token of the Authorization header (None: the
\* request has no such header)
WUReq(i, kind, authorization, data) ==
    [ie |-> i, kind |-> kind, at |-> now, authorization |-> authorization,
     data |-> data]
NoData == [token |-> << >>, method |-> 0, ignoreDeviceRestriction |-> FALSE]

\* _get_token_cookie: a missing 'token' cookie and one with an empty value
NoTokenCookie == [value |-> 0, exp |-> None]
HasTokenCookie == cookiejar.token.value # 0

\* an ExtractorError; raise_login_required raises an expected one
ExtractorError(msg, expected) == [msg |-> msg, expected |-> expected]
NoAuthError == ExtractorError("", FALSE)

ProperAuthError_Strict(token_cookie) ==
    IF token_cookie.value = 0 THEN ExtractorError("login required", TRUE)
    ELSE IF ExpiryMissing(token_cookie.exp)
    THEN ExtractorError("There was a problem with the token cookie", FALSE)
    ELSE IF token_cookie.exp < now
    THEN ExtractorError(
             "Expired token. Refresh your cookies in browser and try again", TRUE)
    ELSE ExtractorError(
             "This account does not have access to the requested content", TRUE)
\* _raise_proper_auth_error, for the 'token' cookie that the jar holds when it
\* is called
ProperAuthError(token_cookie) ==
    IF token_cookie.value = 0 THEN ExtractorError("login required", TRUE)
    ELSE IF ExpiryMissing(token_cookie.exp)
    THEN ExtractorError("There was a problem with the token cookie", FALSE)
    ELSE IF token_cookie.exp <= now
    THEN ExtractorError(
             "Expired token. Refresh your cookies in browser and try again", TRUE)
    ELSE ExtractorError(
             "This account does not have access to the requested content", TRUE)

WUPPV == "WrestleUniversePPV"
WUVOD == "WrestleUniverseVOD"
WUIEs == {WUPPV, WUVOD}

\* what a response may do to the 'token' cookie of the jar: nothing, or delete it
SetCookie(jar) == {jar, [jar EXCEPT !.token = NoTokenCookie]}

\* the 'tbr' of a format of the m3u8 playlist, in thousandths (BANDWIDTH / 1000;
\* None: the format has none)
TbrValues == {None, 0, 6500}
FormatLists == UNION {[1 .. n -> TbrValues] : n \in 0 .. MaxFormats}
NoInfo == [formats |-> << >>, hls_aes_key |-> None, hls_aes_iv |-> None]

CallApi_NoCheck(kind, auth, data) ==
    /\ inflight' = (inflight \ RequestsOf(cur)) \cup
           {WUReq(cur, kind, IF auth THEN cookiejar.token.value ELSE None, data)}
    /\ pc' = kind
    /\ UNCHANGED <<cur, result>>
\* 'headers['Authorization'] = ...' and the request of _call_api
CallApi(kind, auth, data) ==
    IF auth /\ ~HasTokenCookie
    THEN /\ Raise(cur, "login required")
         /\ inflight' = inflight \ RequestsOf(cur)
    ELSE /\ inflight' = (inflight \ RequestsOf(cur)) \cup
                {WUReq(cur, kind, IF auth THEN cookiejar.token.value ELSE None, data)}
         /\ pc' = kind
         /\ UNCHANGED <<cur, result>>

\* the empty string as the 'key' or 'iv' of a response
Empty == [kind |-> "empty", to |-> 0, msg |-> 0]
\* a response without 'canWatch', stream URL, key and iv
NoVideoData ==
    [canWatch |-> FALSE, hls_url |-> FALSE, key |-> Empty, iv |-> Empty,
     encryptType |-> [int |-> FALSE, v |-> 0]]

\* the locals of a _real_extract that begins
WUStart(i) ==
    /\ cur' = i
    /\ result' = "running"
    /\ inflight' = inflight \cup {WUReq(i, "metadata", None, NoData)}
    /\ pc' = "metadata"
    /\ private_key' = 0 /\ video_data' = NoVideoData /\ info' = NoInfo
    /\ warnings' = {} /\ stage' = "metadata"
    /\ m3u8_formats' = << >> /\ auth_error' = NoAuthError
    /\ UNCHANGED <<now, cookiejar, site, keys, notWU>>

(***************************************************************************)
(* WrestleUniversePPVIE                                                    *)
(*                                                                         *)
(* RSA-OAEP in the abstract: a key pair is named by a positive number, the *)
(* public key of pair k is [n |-> k], and data encrypted to a public key   *)
(* decrypts with the private key of the same pair only.  The 'key' and     *)
(* 'iv' of a watchArchive response are JSON strings.                       *)
(***************************************************************************)
\* RSA.generate(2048): a pair that no earlier call generated
Generate(ks) == Len(ks) + 1
public_key(k) == [n |-> k]
B64Encode(x) == <<"base64", x>>
B64Decode(s) == s[2]

\* other strings a response may carry as 'key' or 'iv'
NotBase64 == [kind |-> "not base64", to |-> 0, msg |-> 0]
\* base64 of the OAEP encryption of msg to the public key pub
Encrypted(pub, msg) == [kind |-> "encrypted", to |-> pub.n, msg |-> msg]
\* a key pair the program never generates
ForeignKey == [n |-> 0]

CouldNotDecrypt == 0 - 2
decrypt_AnyKey(k, data) ==
    IF data.kind = "empty" THEN None
    ELSE IF data.kind = "not base64" THEN CouldNotDecrypt
    ELSE data.msg
\* decrypt of _call_public_key_api, for the cipher of private key k
decrypt(k, data) ==
    IF data.kind = "empty" THEN None
    ELSE IF data.kind = "not base64" THEN CouldNotDecrypt
    ELSE IF data.to # k THEN CouldNotDecrypt
    ELSE data.msg

\* what the watchArchive endpoint may answer to a request with this 'token'
KeyStrings(token) ==
    {Empty, NotBase64, Encrypted(ForeignKey, 1)} \cup
    {Encrypted(B64Decode(token), m) : m \in 1 .. MaxSecret}
\* hls.encryptType: missing or not an int, or an int
EncryptTypes == {[int |-> FALSE, v |-> 0]} \cup {[int |-> TRUE, v |-> x] : x \in -1 .. 1}
\* a response with or without 'canWatch' and with or without a stream URL
PlainVideoData ==
    {[NoVideoData EXCEPT !.canWatch = c, !.hls_url = h] : c, h \in BOOLEAN}
VideoData(token) ==
    PlainVideoData \cup
    {[canWatch |-> TRUE, hls_url |-> TRUE, key |-> k, iv |-> v, encryptType |-> e] :
        k \in KeyStrings(token), v \in KeyStrings(token), e \in EncryptTypes}

\* _real_extract up to the metadata request of _download_metadata
StartPPV ==
    /\ site = "wrestleuniverse" /\ pc = "idle"
    /\ Len(keys) < MaxKeys
    /\ WUStart(WUPPV)

\* _call_public_key_api up to the watchArchive request
CallPublicKeyApi ==
    LET k == Generate(keys) IN
    /\ keys' = Append(keys, k)
    /\ private_key' = k
    /\ CallApi("watchArchive", TRUE,
               [NoData EXCEPT !.token = B64Encode(public_key(k)), !.method = 1])
    /\ stage' = "watchArchive"

\* the watch request of WrestleUniverseVODIE._real_extract
CallWatchApi ==
    /\ CallApi("watch", TRUE, [NoData EXCEPT !.ignoreDeviceRestriction = TRUE])
    /\ stage' = "watch"
    /\ UNCHANGED <<keys, private_key>>

\* what _real_extract does with the metadata: the authenticated request
AfterMetadata == IF cur = WUPPV THEN CallPublicKeyApi ELSE CallWatchApi

\* _download_metadata from the metadata response on (fatal=False: a failed
\* download gives no metadata), then the authenticated request
MetadataResponse ==
    /\ cur \in WUIEs /\ pc = "metadata"
    /\ \E answer \in {"metadata", "nothing"} :
         IF answer = "metadata"
         THEN AfterMetadata
         ELSE /\ inflight' = (inflight \ RequestsOf(cur)) \cup
                     {WUReq(cur, "webpage", None, NoData)}
              /\ pc' = "webpage"
              /\ UNCHANGED <<cur, result, keys, private_key, stage>>
    /\ UNCHANGED <<now, cookiejar, site, video_data, info, warnings, m3u8_formats,
                   auth_error, notWU>>

\* _download_metadata from the webpage on, then the authenticated request
WebpageResponse ==
    /\ cur \in WUIEs /\ pc = "webpage"
    /\ \E answer \in {"next.js data", "no next.js data", "error"} :
         IF answer = "next.js data"
         THEN AfterMetadata
         ELSE /\ Raise(cur, IF answer = "error" THEN "Unable to download webpage"
                            ELSE "Unable to extract next.js data")
              /\ inflight' = inflight \ RequestsOf(cur)
              /\ UNCHANGED <<keys, private_key, stage>>
    /\ UNCHANGED <<now, cookiejar, site, video_data, info, warnings, m3u8_formats,
                   auth_error, notWU>>

AfterWatch_NoGate(vd) ==
    /\ video_data' = vd
    /\ \E jar \in SetCookie(cookiejar) :
         /\ cookiejar' = jar
         /\ IF ~vd.hls_url
            THEN /\ Raise(cur, "No supported formats found")
                 /\ inflight' = inflight \ RequestsOf(cur)
                 /\ UNCHANGED <<stage, auth_error>>
            ELSE /\ inflight' = (inflight \ RequestsOf(cur)) \cup
                        {WUReq(cur, "m3u8", None, NoData)}
                 /\ pc' = "m3u8"
                 /\ stage' = "m3u8"
                 /\ UNCHANGED <<cur, result, auth_error>>
\* _real_extract of either extractor from the response to the authenticated
\* request to the m3u8 request: 'canWatch', then the stream URL
AfterWatch(vd) ==
    /\ video_data' = vd
    /\ \E jar \in SetCookie(cookiejar) :
         /\ cookiejar' = jar
         /\ IF ~vd.canWatch
            THEN /\ auth_error' = ProperAuthError(jar.token)
                 /\ Raise(cur, ProperAuthError(jar.token).msg)
                 /\ inflight' = inflight \ RequestsOf(cur)
                 /\ UNCHANGED stage
            ELSE IF ~vd.hls_url
            THEN /\ Raise(cur, "No supported formats found")
                 /\ inflight' = inflight \ RequestsOf(cur)
                 /\ UNCHANGED <<stage, auth_error>>
            ELSE /\ inflight' = (inflight \ RequestsOf(cur)) \cup
                        {WUReq(cur, "m3u8", None, NoData)}
                 /\ pc' = "m3u8"
                 /\ stage' = "m3u8"
                 /\ UNCHANGED <<cur, result, auth_error>>

\* WrestleUniversePPVIE._real_extract from the watchArchive response on
WatchArchiveResponse ==
    /\ cur = WUPPV /\ pc = "watchArchive"
    /\ \E r \in RequestsOf(WUPPV) :
         \/ /\ Raise(WUPPV, "Failed to download watch archive JSON")
            /\ inflight' = inflight \ RequestsOf(WUPPV)
            /\ UNCHANGED <<cookiejar, video_data, stage, auth_error>>
         \/ \E vd \in VideoData(r.data.token) : AfterWatch(vd)
    /\ UNCHANGED <<now, site, keys, private_key, info, warnings, m3u8_formats, notWU>>

\* 'if f.get('tbr'): f['tbr'] = f['tbr'] // 4', on thousandths
ReduceTbr_Twice(formats) ==
    [k \in 1 .. Len(formats) |->
        IF formats[k] # None /\ formats[k] # 0
        THEN (((formats[k] \div 4000) * 1000) \div 4000) * 1000 ELSE formats[k]]
ReduceTbr(formats) ==
    [k \in 1 .. Len(formats) |->
        IF formats[k] # None /\ formats[k] # 0
        THEN (formats[k] \div 4000) * 1000 ELSE formats[k]]

KeyWarning == "HLS AES-128 key was not found in API response"
KeyNotFound_AnyInt(hls_aes_key, vd) ==
    hls_aes_key = None /\ vd.encryptType.int
\* 'not hls_aes_key and traverse_obj(video_data, ('hls', 'encryptType', {int}),
\* default=0) > 0'
KeyNotFound(hls_aes_key, vd) ==
    hls_aes_key = None /\ vd.encryptType.int /\ vd.encryptType.v > 0

\* _real_extract from the m3u8 playlist to its end
M3u8Response ==
    /\ cur = WUPPV /\ pc = "m3u8"
    /\ inflight' = inflight \ RequestsOf(WUPPV)
    /\ \/ /\ Raise(WUPPV, "Failed to download m3u8 information")
          /\ UNCHANGED <<info, warnings, stage, m3u8_formats>>
       \/ \E formats \in FormatLists :
            LET hls_aes_key == decrypt(private_key, video_data.key)
                hls_aes_iv == decrypt(private_key, video_data.iv)
            IN  /\ stage' = "decrypt"
                /\ m3u8_formats' = formats
                /\ IF hls_aes_key = CouldNotDecrypt
                   THEN /\ Raise(WUPPV, "Could not decrypt data")
                        /\ UNCHANGED <<info, warnings>>
                   ELSE /\ warnings' = IF KeyNotFound(hls_aes_key, video_data)
                                       THEN warnings \cup {KeyWarning}
                                       ELSE warnings
                        /\ IF hls_aes_iv = CouldNotDecrypt
                           THEN /\ Raise(WUPPV, "Could not decrypt data")
                                /\ UNCHANGED info
                           ELSE /\ Raise(WUPPV, "info dict")
                                /\ info' = [formats |-> ReduceTbr(formats),
                                            hls_aes_key |-> hls_aes_key,
                                            hls_aes_iv |-> hls_aes_iv]
    /\ UNCHANGED <<now, cookiejar, site, keys, private_key, video_data, auth_error,
                   notWU>>

(***************************************************************************)
(* WrestleUniverseVODIE                                                    *)
(***************************************************************************)
\* _real_extract up to the metadata request of _download_metadata
StartVOD ==
    /\ site = "wrestleuniverse" /\ pc = "idle"
    /\ WUStart(WUVOD)

\* _real_extract from the watch response on
WatchResponse ==
    /\ cur = WUVOD /\ pc = "watch"
    /\ \/ /\ Raise(WUVOD, "Failed to download watch JSON")
          /\ inflight' = inflight \ RequestsOf(WUVOD)
          /\ UNCHANGED <<cookiejar, video_data, stage, auth_error>>
       \/ \E vd \in PlainVideoData : AfterWatch(vd)
    /\ UNCHANGED <<now, site, keys, private_key, info, warnings, m3u8_formats, notWU>>

\* _real_extract from the m3u8 playlist to its end: the formats as they are
VODM3u8Response ==
    /\ cur = WUVOD /\ pc = "m3u8"
    /\ inflight' = inflight \ RequestsOf(WUVOD)
    /\ \/ /\ Raise(WUVOD, "Failed to download m3u8 information")
          /\ UNCHANGED <<info, stage, m3u8_formats>>
       \/ \E formats \in FormatLists :
            /\ stage' = "formats"
            /\ m3u8_formats' = formats
            /\ Raise(WUVOD, "info dict")
            /\ info' = [NoInfo EXCEPT !.formats = formats]
    /\ UNCHANGED <<now, cookiejar, site, keys, private_key, video_data, warnings,
                   auth_error, notWU>>

(***************************************************************************)
(* GoIE                                                                    *)
(***************************************************************************)
GoIE == "Go"
PlainReq(i, kind) == [ie |-> i, kind |-> kind, at |-> now]
Answered(i) == inflight \ RequestsOf(i)

SeqsUpTo(S, n) == UNION {[1 .. k -> S] : k \in 0 .. n}
Reverse_Same(seq) == seq
\* list.reverse()
Reverse(seq) == [k \in 1 .. Len(seq) |-> seq[Len(seq) + 1 - k]]
\* an asset has no 'value', or is an m3u8 playlist, or a file of another kind
AssetLists == SeqsUpTo({"no value", "m3u8", "file"}, MaxAssets)
\* the brands of _SITE_INFO and the show ids a page may carry as data-show-id
Brands == {"004", "008"}
ShowIds == {"SH1", "SH2"}
\* the request of _extract_videos(brand, show_id=show_id)
ShowReq(brand, show_id) ==
    [ie |-> GoIE, kind |-> "show videos", at |-> now, brand |-> brand,
     show_id |-> show_id, video_id |-> "-1"]
\* what the API may answer to it: videos of the show and brand it was asked for
VideoLists(r) ==
    {[k \in 1 .. n |-> [brand |-> r.brand, show_id |-> r.show_id, id |-> k]] :
        n \in 0 .. MaxVideos}
\* self.url_result(video['url'], 'Go', video.get('id'), video.get('title'))
UrlResult(video) == [type |-> "url", ie_key |-> "Go", video |-> video]
\* the locals of _real_extract, the playlist it returns (id and entries), and
\* the kinds of the requests it has sent, in order
NoGo ==
    [assets |-> << >>, accesslevel |-> "0", formats |-> << >>,
     brand |-> "", show_id |-> "", videos |-> << >>,
     playlist_id |-> "", entries |-> << >>, requests |-> << >>]
\* the request of this kind is noted as sent
Requested(kind) == [go EXCEPT !.requests = Append(@, kind)]

\* one request after another: the reply to the last has been dealt with
SendNext(i, kind) ==
    /\ inflight' = Answered(i) \cup {PlainReq(i, kind)}
    /\ pc' = kind
    /\ UNCHANGED <<cur, result>>
Finish(i, what) ==
    /\ Raise(i, what)
    /\ inflight' = Answered(i)

\* _real_extract up to its first request
StartGo ==
    /\ site = "go" /\ pc = "idle"
    /\ cur' = GoIE
    /\ result' = "running"
    /\ \E known \in BOOLEAN :
         LET kind == IF known THEN "videos" ELSE "go webpage" IN
         /\ inflight' = inflight \cup {PlainReq(GoIE, kind)}
         /\ pc' = kind
         /\ go' = [NoGo EXCEPT !.requests = <<kind>>]
    /\ UNCHANGED <<now, cookiejar, site, notGo>>

\* from the webpage to the request of _extract_videos
GoWebpageResponse ==
    /\ cur = GoIE /\ pc = "go webpage"
    /\ \E answer \in {"video", "show", "no show id", "unknown brand", "error"} :
         CASE answer = "video" ->
                /\ SendNext(GoIE, "videos")
                /\ go' = Requested("videos")
           [] answer = "show" ->
                \E brand \in Brands, show_id \in ShowIds :
                    /\ inflight' = Answered(GoIE) \cup {ShowReq(brand, show_id)}
                    /\ pc' = "show videos"
                    /\ go' = [Requested("show videos") EXCEPT
                                 !.brand = brand, !.show_id = show_id]
                    /\ UNCHANGED <<cur, result>>
           [] answer = "no show id" ->
                Finish(GoIE, "Unable to extract show id") /\ UNCHANGED go
           [] answer = "unknown brand" ->
                Finish(GoIE, "StopIteration") /\ UNCHANGED go
           [] OTHER -> Finish(GoIE, "Unable to download webpage") /\ UNCHANGED go
    /\ UNCHANGED <<now, cookiejar, site, notGo>>

\* the show: its videos become the entries of a playlist, last video first
GoShowResponse ==
    /\ cur = GoIE /\ pc = "show videos"
    /\ \/ /\ \E what \in {"Unable to download JSON metadata", "KeyError"} :
               Finish(GoIE, what)
          /\ UNCHANGED go
       \/ \E r \in RequestsOf(GoIE) : \E videos \in VideoLists(r) :
            /\ go' = [go EXCEPT
                         !.videos = videos,
                         !.entries = Reverse([k \in 1 .. Len(videos) |->
                                                 UrlResult(videos[k])]),
                         !.playlist_id = go.show_id]
            /\ Finish(GoIE, "playlist")
    /\ UNCHANGED <<now, cookiejar, site, notGo>>

\* '_extract_videos(brand, video_id)[0]' and the start of the loop over its assets
GoVideosResponse ==
    /\ cur = GoIE /\ pc = "videos"
    /\ \/ /\ \E what \in {"Unable to download JSON metadata", "KeyError", "IndexError"} :
               Finish(GoIE, what)
          /\ UNCHANGED go
       \/ \E assets \in AssetLists, accesslevel \in {"0", "1"} :
            /\ go' = [go EXCEPT !.assets = assets, !.accesslevel = accesslevel]
            /\ inflight' = Answered(GoIE)
            /\ pc' = "assets"
            /\ UNCHANGED <<cur, result>>
    /\ UNCHANGED <<now, cookiejar, site, notGo>>

\* 'for asset in ...': the loop goes on with the assets after this one
RestAssets_Same(assets) == assets
RestAssets(assets) == Tail(assets)

\* one turn of the loop over the assets up to its first request, and the rest of
\* _real_extract after the loop (its other loops send nothing)
GoAsset ==
    /\ cur = GoIE /\ pc = "assets"
    /\ IF go.assets = << >>
       THEN /\ Finish(GoIE, "info dict")
            /\ UNCHANGED go
       ELSE LET asset == Head(go.assets) IN
            CASE asset = "no value" ->
                   /\ go' = [go EXCEPT !.assets = RestAssets(go.assets)]
                   /\ UNCHANGED <<cur, pc, inflight, result>>
              [] asset = "file" ->
                   /\ go' = [go EXCEPT !.assets = RestAssets(go.assets),
                                       !.formats = Append(@, "file")]
                   /\ UNCHANGED <<cur, pc, inflight, result>>
              [] OTHER ->
                   LET kind == IF go.accesslevel = "1" THEN "mvpd" ELSE "entitlement"
                   IN  SendNext(GoIE, kind) /\ go' = Requested(kind)
    /\ UNCHANGED <<now, cookiejar, site, notGo>>

\* _extract_mvpd_auth returns a token or raises
GoMvpdResponse ==
    /\ cur = GoIE /\ pc = "mvpd"
    /\ \/ SendNext(GoIE, "entitlement") /\ go' = Requested("entitlement")
       \/ Finish(GoIE, "mvpd authentication failed") /\ UNCHANGED go
    /\ UNCHANGED <<now, cookiejar, site, notGo>>

\* from the entitlement to the m3u8 request
GoEntitlementResponse ==
    /\ cur = GoIE /\ pc = "entitlement"
    /\ \E answer \in {"sessionKey", "error 1002", "errors", "KeyError", "error"} :
         CASE answer = "sessionKey" ->
                SendNext(GoIE, "go m3u8") /\ go' = Requested("go m3u8")
           [] answer = "error 1002" -> Finish(GoIE, "geo restricted") /\ UNCHANGED go
           [] answer = "errors" -> Finish(GoIE, "Go said: errors") /\ UNCHANGED go
           [] answer = "KeyError" -> Finish(GoIE, "KeyError") /\ UNCHANGED go
           [] OTHER -> Finish(GoIE, "Unable to download JSON metadata") /\ UNCHANGED go
    /\ UNCHANGED <<now, cookiejar, site, notGo>>

\* the formats of the playlist (fatal=False: none when the download fails), and
\* the loop goes on
GoM3u8Response ==
    /\ cur = GoIE /\ pc = "go m3u8"
    /\ \E fmts \in {<< >>, <<"hls">>} :
         go' = [go EXCEPT !.assets = RestAssets(go.assets), !.formats = @ \o fmts]
    /\ inflight' = Answered(GoIE)
    /\ pc' = "assets"
    /\ UNCHANGED <<cur, result>>
    /\ UNCHANGED <<now, cookiejar, site, notGo>>

(***************************************************************************)
(* WeverseIE                                                               *)
(***************************************************************************)
WeverseIE == "Weverse"
\* a stream is an HLS stream with a source, or is skipped
StreamLists == SeqsUpTo({"HLS", "other"}, MaxStreams)
NoWv == [streams |-> << >>, formats |-> 0]

\* 'if not x' for a string or None
Falsy(x) == x = None \/ x = 0

\* what _check_auth leaves in _AUTH_TOKEN
CheckedToken ==
    IF ~Falsy(AUTH_TOKEN) THEN AUTH_TOKEN
    ELSE IF cookiejar.we2_access_token # None THEN cookiejar.we2_access_token
    ELSE AUTH_TOKEN
CheckAuth_TokenOnly == ~Falsy(AUTH_TOKEN)
\* what _check_auth returns
CheckAuth == ~Falsy(AUTH_TOKEN) \/ cookiejar.we2_access_token # None

\* random_uuidv4()
RandomUuid == 2
\* the device id of _real_initialize
DeviceId ==
    IF ~Falsy(WEV_DEVICE_ID) THEN WEV_DEVICE_ID
    ELSE IF device_arg # None THEN device_arg
    ELSE RandomUuid

\* _real_initialize
WvRealInitialize ==
    /\ site = "weverse" /\ pc = "idle"
    /\ cur' = WeverseIE
    /\ AUTH_TOKEN' = CheckedToken
    /\ IF CheckAuth
       THEN /\ result' = "initialized"
            /\ WEV_DEVICE_ID' = DeviceId
       ELSE /\ result' = "login required"
            /\ UNCHANGED WEV_DEVICE_ID
    /\ wv' = NoWv
    /\ UNCHANGED <<now, cookiejar, site, pc, inflight, device_arg, login, notWv>>

\* the locals of _perform_login before the responses: check_username.get('hasPassword')
\* and auth.get('accessToken')
NoLogin == [hasPassword |-> FALSE, accessToken |-> None]
\* the accessToken of a response: missing, the empty string, or a token
AccessTokens == {None, 0, 3}

\* _perform_login up to the request that checks the username
PerformLogin ==
    /\ site = "weverse" /\ pc = "idle"
    /\ cur' = WeverseIE
    /\ AUTH_TOKEN' = CheckedToken
    /\ login' = NoLogin
    /\ IF CheckAuth
       THEN /\ result' = "logged in"
            /\ UNCHANGED <<pc, inflight>>
       ELSE /\ result' = "running"
            /\ inflight' = inflight \cup {PlainReq(WeverseIE, "email status")}
            /\ pc' = "email status"
    /\ UNCHANGED <<now, cookiejar, site, WEV_DEVICE_ID, device_arg, wv, notWv>>

\* _perform_login from the answer about the username to the credentials request
EmailStatusResponse ==
    /\ cur = WeverseIE /\ pc = "email status"
    /\ \/ /\ Finish(WeverseIE, "Unable to download JSON metadata")
          /\ UNCHANGED login
       \/ \E hasPassword \in BOOLEAN :
            /\ login' = [login EXCEPT !.hasPassword = hasPassword]
            /\ IF ~hasPassword
               THEN Finish(WeverseIE, "Invalid username provided")
               ELSE SendNext(WeverseIE, "credentials")
    /\ UNCHANGED <<now, cookiejar, site, AUTH_TOKEN, WEV_DEVICE_ID, device_arg, wv,
                   notWv>>

\* _perform_login from the answer to the credentials to its end
CredentialsResponse ==
    /\ cur = WeverseIE /\ pc = "credentials"
    /\ \/ /\ Finish(WeverseIE, "Unable to download JSON metadata")
          /\ UNCHANGED <<login, AUTH_TOKEN>>
       \/ \E accessToken \in AccessTokens :
            /\ login' = [login EXCEPT !.accessToken = accessToken]
            /\ IF Falsy(accessToken)
               THEN /\ Finish(WeverseIE, "Access denied. Wrong password?")
                    /\ UNCHANGED AUTH_TOKEN
               ELSE /\ AUTH_TOKEN' = accessToken
                    /\ Finish(WeverseIE, "logged in")
    /\ UNCHANGED <<now, cookiejar, site, WEV_DEVICE_ID, device_arg, wv, notWv>>

\* the URLs _call_api is given: the name of the endpoint, then characters of which
\* the last tells two videos apart
Url(endpoint, n, last) ==
    [k \in 1 .. n |-> IF k = 1 THEN endpoint ELSE IF k = n THEN last ELSE "x"]
UrlLengths == {MaxUrlLen - 2, MaxUrlLen - 1, MaxUrlLen}
Urls(endpoint) == {Url(endpoint, n, last) : n \in UrlLengths, last \in {"0", "1"}}
\* int(time.time() * 1000), for the milliseconds ms into the second
Millis(ms) == now * 1000 + ms

KEY == "1b9cb6378d959b45714bec49971ade22e6e24e42"
\* hmac.HMAC(key, msg, digestmod=hashlib.sha1).digest()
HMAC(key, msg) == [digest |-> "sha1", key |-> key, msg |-> msg]
\* url[:255]
Truncated_Whole(url) == url
Truncated(url) == SubSeq(url, 1, Min(Len(url), URL_LIMIT))
\* f'{url[:255]}{ts}'.encode()
Signed(url, ts) == Append(Truncated(url), ts)

\* the request of _call_api
WvCallApi(kind, url, ts) ==
    [ie |-> WeverseIE, kind |-> kind, at |-> now, url |-> url,
     authorization |-> AUTH_TOKEN, device |-> WEV_DEVICE_ID,
     wmsgpad |-> ts, wmd |-> B64Encode(HMAC(KEY, Signed(url, ts)))]

\* _real_extract up to the post request; it runs once the instance is initialized
StartWeverse ==
    /\ site = "weverse" /\ pc = "idle"
    /\ ~Falsy(WEV_DEVICE_ID)
    /\ cur' = WeverseIE
    /\ result' = "running"
    /\ wv' = NoWv
    /\ \E url \in Urls("post"), ms \in {0, 999} :
         inflight' = inflight \cup {WvCallApi("post", url, Millis(ms))}
    /\ pc' = "post"
    /\ UNCHANGED <<now, cookiejar, site, notWv, wvAuth>>

\* from the post to the inKey request
PostResponse ==
    /\ cur = WeverseIE /\ pc = "post"
    /\ \E answer \in {"VOD", "not VOD", "no ids", "error"} :
         CASE answer = "VOD" ->
                /\ \E url \in Urls("inKey"), ms \in {0, 999} :
                     inflight' = Answered(WeverseIE) \cup
                                     {WvCallApi("inKey", url, Millis(ms))}
                /\ pc' = "inKey"
                /\ UNCHANGED <<cur, result>>
           [] answer = "not VOD" ->
                Finish(WeverseIE, "Only VOD content is currently supported")
           [] answer = "no ids" ->
                Finish(WeverseIE, "Required ID value(s) not found in API response")
           [] OTHER -> Finish(WeverseIE, "Unable to download JSON metadata")
    /\ UNCHANGED <<now, cookiejar, site, notWv, wv, wvAuth>>

\* from the inKey to the VOD request
InKeyResponse ==
    /\ cur = WeverseIE /\ pc = "inKey"
    /\ \E answer \in {"inKey", "KeyError", "error"} :
         CASE answer = "inKey" -> SendNext(WeverseIE, "vod")
           [] answer = "KeyError" -> Finish(WeverseIE, "KeyError")
           [] OTHER -> Finish(WeverseIE, "Unable to download JSON metadata")
    /\ UNCHANGED <<now, cookiejar, site, notWv, wv, wvAuth>>

\* the VOD JSON: the loop over its videos, and the start of the loop over its streams
VodResponse ==
    /\ cur = WeverseIE /\ pc = "vod"
    /\ \/ /\ Finish(WeverseIE, "Unable to download JSON metadata")
          /\ UNCHANGED wv
       \/ \E streams \in StreamLists, complete \in 0 .. 1 :
            /\ wv' = [streams |-> streams, formats |-> complete]
            /\ inflight' = Answered(WeverseIE)
            /\ pc' = "streams"
            /\ UNCHANGED <<cur, result>>
    /\ UNCHANGED <<now, cookiejar, site, notWv, wvAuth>>

\* one turn of the loop over the streams up to its request, and the rest of
\* _real_extract after the loop
Stream ==
    /\ cur = WeverseIE /\ pc = "streams"
    /\ IF wv.streams = << >>
       THEN /\ Finish(WeverseIE, IF wv.formats = 0 THEN "No completed VOD formats found"
                                 ELSE "info dict")
            /\ UNCHANGED wv
       ELSE IF Head(wv.streams) = "HLS"
       THEN /\ SendNext(WeverseIE, "hls")
            /\ UNCHANGED wv
       ELSE /\ wv' = [wv EXCEPT !.streams = Tail(@)]
            /\ UNCHANGED <<cur, pc, inflight, result>>
    /\ UNCHANGED <<now, cookiejar, site, notWv, wvAuth>>

\* the formats of the stream (fatal=False: none when the download fails), and the
\* loop goes on
HlsResponse ==
    /\ cur = WeverseIE /\ pc = "hls"
    /\ \E fmts \in 0 .. 1 :
         wv' = [streams |-> Tail(wv.streams), formats |-> wv.formats + fmts]
    /\ inflight' = Answered(WeverseIE)
    /\ pc' = "streams"
    /\ UNCHANGED <<cur, result>>
    /\ UNCHANGED <<now, cookiejar, site, notWv, wvAuth>>

(***************************************************************************)
(* The clock and the specification.                                        *)
(***************************************************************************)
\* The clock is read by the test of _refresh_tokens, is compared with the expiry
\* when _call_api sends, and is read by _raise_proper_auth_error once the
\* watch or watchArchive response is there, and by the _call_api of Weverse that follows
\* the post: it advances just before these points (an advance at any other point
\* is observed there and nowhere else).
Tick ==
    /\ pc \in {"refresh", "api_send", "watchArchive", "watch", "post"}
    /\ now < MaxTime
    /\ now' = now + 1
    /\ UNCHANGED <<cookiejar, cur, pc, inflight, result, vimeoVars, otherVars>>

\* the cookies of a browser session the run may be given for its site: vuid
\* (0: none), the WrestleUniverse token, and the value of we2_access_token (None:
\* no such cookie, 0: the empty string)
NoCookies == [vuid |-> 0, token |-> NoTokenCookie, we2_access_token |-> None]
BrowserCookies(s) ==
    IF s = "vimeo"
    THEN {[NoCookies EXCEPT !.vuid = v] : v \in {0, MaxFetch + 1}}
    ELSE IF s = "wrestleuniverse"
    THEN {[NoCookies EXCEPT !.token = t] :
             t \in {NoTokenCookie} \cup {[value |-> 1, exp |-> e] : e \in ExpValues}}
    ELSE IF s = "weverse"
    THEN {[NoCookies EXCEPT !.we2_access_token = c] : c \in {None, 0, 1}}
    ELSE {NoCookies}
\* the 'device' extractor argument the run may be given
DeviceArgs(s) == IF s = "weverse" THEN {None, 1} ELSE {None}

Sites == {"vimeo", "vimeo video", "wrestleuniverse", "go", "weverse"}

Init ==
    /\ now = 1
    /\ site \in Sites
    /\ cookiejar \in BrowserCookies(site)
    /\ loggedIn = (cookiejar.vuid # 0)
    /\ keys = << >> /\ private_key = 0 /\ video_data = NoVideoData
    /\ info = NoInfo /\ warnings = {} /\ stage = ""
    /\ m3u8_formats = << >> /\ auth_error = NoAuthError
    /\ go = NoGo /\ wv = NoWv
    /\ AUTH_TOKEN = None /\ WEV_DEVICE_ID = None
    /\ device_arg \in DeviceArgs(site)
    /\ login = NoLogin
    /\ vimeo_url \in (IF site = "vimeo video" THEN VimeoUrls ELSE {NoUrl})
    /\ mobj = NoMatch
    /\ JSON_WEB_TOKEN = [i \in VimeoIEs |-> 0]
    /\ XSRF_TOKEN = [i \in VimeoIEs |-> 0]
    /\ TOKEN_EXPIRY = [i \in VimeoIEs |-> TOKEN_EXPIRY_DEFAULT]
    /\ fetched = 0
    /\ lastFetch = [i \in VimeoIEs |-> 0]
    /\ checkTime = 0
    /\ fetchedInCall = FALSE
    /\ cur = ""
    /\ pc = "idle"
    /\ cont = ""
    /\ inflight = {}
    /\ result = "none"
    /\ album = NoAlbum
    /\ videopassword = ""
    /\ hashed_pass = 0 /\ page = 0 /\ entries = << >>
    /\ authHash = 0 /\ sent = NothingSent

Next ==
    \/ Tick
    \/ \E i \in VimeoIEs : RefreshTokens(i)
    \/ \E i \in VimeoIEs : ViewerResponse(i)
    \/ \E i \in VimeoIEs : ViewerError(i)
    \/ \E i \in VimeoIEs : ApiSend(i)
    \/ \E i \in VimeoIEs : StartLogin(i)
    \/ \E i \in VimeoIEs : LoginSend(i)
    \/ \E i \in VimeoIEs : LoginResponse(i)
    \/ \E i \in VimeoIEs : RealInitialize(i)
    \/ StartAlbum
    \/ AlbumInfoResponse
    \/ AlbumAuthResponse
    \/ FetchPage
    \/ AlbumPageResponse
    \/ StartPPV
    \/ MetadataResponse
    \/ WebpageResponse
    \/ WatchArchiveResponse
    \/ M3u8Response
    \/ StartVOD
    \/ WatchResponse
    \/ VODM3u8Response
    \/ StartGo
    \/ GoWebpageResponse
    \/ GoShowResponse
    \/ GoVideosResponse
    \/ GoAsset
    \/ GoMvpdResponse
    \/ GoEntitlementResponse
    \/ GoM3u8Response
    \/ MatchValidUrl
    \/ PerformLogin
    \/ EmailStatusResponse
    \/ CredentialsResponse
    \/ WvRealInitialize
    \/ StartWeverse
    \/ PostResponse
    \/ InKeyResponse
    \/ VodResponse
    \/ Stream
    \/ HlsResponse

Spec == Init /\ [][Next]_vars

(***************************************************************************)
(* Properties.                                                             *)
(***************************************************************************)
ApiRequests == {r \in inflight : r.kind \in {"api_info", "api_page"}}
PageRequests == {r \in inflight : r.kind = "api_page"}
AuthRequests == {r \in inflight : r.kind = "auth"}

\* C1 (as stated): every request _call_api sends carries the JWT of the instance's
\* most recent viewer fetch, and the stored expiry is strictly greater than the
\* clock at the moment the request is sent.
C1_SentTokenNeverExpired ==
    \A r \in ApiRequests :
        /\ r.jwt # 0 /\ r.jwt = lastFetch[r.ie]
        /\ r.expiry # None /\ r.expiry > r.at

\* C1 (amended): every request _call_api sends carries the JWT of the instance's
\* most recent viewer fetch and the stored expiry is a non-zero integer; the expiry
\* is strictly greater than the clock value read by this call's _refresh_tokens
\* unless this call fetched the token itself.
C1_SentTokenIsLatest ==
    \A r \in ApiRequests :
        /\ r.jwt # 0 /\ r.jwt = lastFetch[r.ie] /\ r.jwt = JSON_WEB_TOKEN[r.ie]
        /\ r.expiry = TOKEN_EXPIRY[r.ie]
        /\ r.expiry # None /\ r.expiry # 0
        /\ (~fetchedInCall => r.expiry > checkTime)

\* a request sent with a token that an earlier call fetched, after a later fetch
\* of the other instance
C1_Witness ==
    \E r \in ApiRequests :
        /\ ~fetchedInCall /\ r.expiry > r.at
        /\ \E j \in VimeoIEs : j # r.ie /\ lastFetch[j] > r.jwt

\* C2 (as stated): _refresh_tokens issues a viewer request exactly when there is no
\* vuid cookie or the stored expiry is not strictly greater than the clock, and when
\* it issues none it changes neither the tokens nor the cookie.
C2_FetchIffNoSessionOrExpired ==
    [][\A i \in VimeoIEs :
          (cur = i /\ pc = "refresh" /\ pc' # "refresh") =>
              /\ (pc' = "viewer_wait") <=>
                     (~HasSession \/ ~(TOKEN_EXPIRY[i] # None /\ TOKEN_EXPIRY[i] > now))
              /\ (pc' # "viewer_wait") =>
                     UNCHANGED <<JSON_WEB_TOKEN, XSRF_TOKEN, TOKEN_EXPIRY, cookiejar>>]_vars

\* C3 (as stated): a step of an operation that runs on one instance changes neither
\* the outcome of another instance's _has_session nor another instance's tokens.
C3_NoSharedState ==
    [][\A j \in VimeoIEs :
          cur' # j =>
              /\ HasSession' = HasSession
              /\ JSON_WEB_TOKEN'[j] = JSON_WEB_TOKEN[j]
              /\ XSRF_TOKEN'[j] = XSRF_TOKEN[j]
              /\ TOKEN_EXPIRY'[j] = TOKEN_EXPIRY[j]]_vars

\* C3 (amended): the token fields of an instance are changed only by operations
\* that run on that instance (the vuid cookie, and so _has_session, is shared).
C3_TokensArePerInstance ==
    [][\A j \in VimeoIEs :
          cur' # j =>
              /\ JSON_WEB_TOKEN'[j] = JSON_WEB_TOKEN[j]
              /\ XSRF_TOKEN'[j] = XSRF_TOKEN[j]
              /\ TOKEN_EXPIRY'[j] = TOKEN_EXPIRY[j]]_vars

\* both instances hold tokens of their own fetches, the cookie is that of the later
C3_Witness ==
    \E i, j \in VimeoIEs :
        /\ JSON_WEB_TOKEN[i] # 0 /\ JSON_WEB_TOKEN[j] > JSON_WEB_TOKEN[i]
        /\ XSRF_TOKEN[i] = JSON_WEB_TOKEN[i]
        /\ cookiejar.vuid = XSRF_TOKEN[j]

\* C6 (as stated): page p is fetched as API page p + 1 with per_page = _PAGE_SIZE, and
\* the complete enumeration yields exactly the videos with a link, once each, in
\* API order.
AllLinked(alb) == SelectSeq([k \in 1 .. alb.n |-> k], LAMBDA v : HasLink(alb, v))
C6_AllLinkedVideosListed ==
    /\ \A r \in PageRequests : r.page = page + 1 /\ r.per_page = PAGE_SIZE
    /\ (cur = Alb /\ result = "done") => entries = AllLinked(album)

C8_WatchLaterNeedsLogin ==
    (cur = "VimeoWatchLater" /\ cont = "init" /\ result = "initialized") => loggedIn

WatchRequests == {r \in inflight : r.kind = "watchArchive"}
Distinct(seq) == \A a, b \in 1 .. Len(seq) : a # b => seq[a] # seq[b]
\* data that is not valid base64 or does not decrypt with the private key k
Undecryptable(k, data) ==
    data.kind = "not base64" \/ (data.kind = "encrypted" /\ data.to # k)
PPVDecrypted == cur = WUPPV /\ stage = "decrypt"

\* C9: every PPV extraction generates a key pair of its own; its watchArchive request
\* carries the base64 public key of that pair as 'token' and 1 as 'method', and
\* nothing else; an extraction that gets as far as the keys fails with 'Could not
\* decrypt data' when the key or the iv is not valid base64 or does not decrypt with
\* the private key of the pair, and otherwise returns what the server encrypted to
\* the submitted public key, unchanged, as hls_aes_key and hls_aes_iv.
C9_KeyExchange ==
    /\ Distinct(keys)
    /\ \A r \in WatchRequests :
          /\ private_key # 0 /\ private_key = keys[Len(keys)]
          /\ r.data = [token |-> B64Encode(public_key(private_key)), method |-> 1,
                       ignoreDeviceRestriction |-> FALSE]
    /\ PPVDecrypted =>
          IF \/ Undecryptable(private_key, video_data.key)
             \/ Undecryptable(private_key, video_data.iv)
          THEN result = "Could not decrypt data"
          ELSE /\ result = "info dict"
               /\ video_data.key.kind = "encrypted" =>
                      info.hls_aes_key = video_data.key.msg
               /\ video_data.iv.kind = "encrypted" =>
                      info.hls_aes_iv = video_data.iv.msg

\* the second extraction of a run returns a key and an iv that differ
C9_Witness ==
    /\ PPVDecrypted /\ result = "info dict" /\ Len(keys) = 2
    /\ video_data.key = Encrypted(public_key(private_key), 2)
    /\ info.hls_aes_key = 2 /\ info.hls_aes_iv = 1

\* C10: an extraction that gets as far as the keys and whose response carries no hls
\* key returns hls_aes_key None (it succeeds unless the iv cannot be decrypted);
\* when the key did not fail to decrypt, the warning 'HLS AES-128 key was not found
\* in API response' is reported exactly if no key was obtained and hls.encryptType
\* is an integer greater than 0; no other extraction reports it.
C10_UnencryptedStream ==
    /\ PPVDecrypted =>
          /\ (/\ video_data.key.kind = "empty"
              /\ ~Undecryptable(private_key, video_data.iv)) =>
                 result = "info dict" /\ info.hls_aes_key = None
          /\ ~Undecryptable(private_key, video_data.key) =>
                 (KeyWarning \in warnings <=>
                     /\ video_data.key.kind = "empty"
                     /\ video_data.encryptType.int
                     /\ video_data.encryptType.v > 0)
    /\ ~PPVDecrypted => KeyWarning \notin warnings

\* a stream without key whose encryptType is 1: returned with the warning
C10_Witness ==
    /\ PPVDecrypted /\ result = "info dict"
    /\ video_data.key.kind = "empty" /\ info.hls_aes_key = None
    /\ video_data.encryptType = [int |-> TRUE, v |-> 1]
    /\ KeyWarning \in warnings

\* the positions at which the program waits for the response to a request
Waiting ==
    {"viewer_wait", "api_wait", "login_wait", "auth_wait",
     "metadata", "webpage", "watchArchive", "watch", "m3u8",
     "go webpage", "show videos", "videos", "mvpd", "entitlement", "go m3u8",
     "post", "inKey", "vod", "hls", "email status", "credentials"}

\* C4: at most one request is in flight at any time, it is a request of the
\* instance whose operation runs, and the program is then waiting for its response:
\* whatever the program does next, the sending of the next request included (the
\* pages of an album too), it does when no request is in flight.
C4_OneRequestAtATime ==
    /\ Cardinality(inflight) <= 1
    /\ \A r \in inflight : r.ie = cur /\ pc \in Waiting
    /\ pc \in Waiting => inflight # {}

\* the request for the second page of an album is the only one in flight
C4_Witness ==
    /\ cur = Alb /\ pc = "api_wait" /\ cont = "page" /\ page = 1
    /\ Cardinality(inflight) = 1 /\ Len(entries) = PAGE_SIZE

Running == pc # "idle"
\* the turns of its loop that the running extraction has still to take, at most
Remaining ==
    CASE pc = "idle" -> 0
      [] cur = Alb /\ (pc = "suspended" \/ cont = "page") ->
             album.n \div PAGE_SIZE + 1 - page
      [] cur = Alb /\ cont = "info" -> MaxFullPages + 2
      [] cur = GoIE /\ pc \in {"assets", "mvpd", "entitlement", "go m3u8"} ->
             Len(go.assets)
      [] cur = GoIE -> MaxAssets + 1
      [] cur = WeverseIE /\ pc \in {"streams", "hls"} -> Len(wv.streams)
      [] cur = WeverseIE -> MaxStreams + 1
      [] OTHER -> 0
\* the steps that the running turn has still to take, at most
StepsOfTurn ==
    CASE pc \in {"suspended", "go webpage", "post"} -> 7
      [] pc \in {"refresh", "inKey"} -> 6
      [] pc \in {"viewer_wait", "metadata", "show videos", "videos", "vod",
                 "assets", "streams"} -> 5
      [] pc \in {"api_send", "login_send", "webpage", "mvpd", "email status"} -> 4
      [] pc \in {"api_wait", "login_wait", "watchArchive", "watch", "entitlement",
                 "credentials"} -> 3
      [] pc \in {"auth_wait", "m3u8", "go m3u8", "hls"} -> 2
      [] OTHER -> 0
Rank == Remaining * 10 + StepsOfTurn

WvApiRequests == {r \in inflight : r.kind \in {"post", "inKey"}}

\* C11 (as stated): _real_initialize either raises the login-required error, when no
\* token is held and there is no we2_access_token cookie, or returns with _AUTH_TOKEN
\* and _WEV_DEVICE_ID non-empty; the device id is the 'device' argument when one is
\* given and a random UUID otherwise; neither is changed once set, and every request
\* of _call_api carries them.
C11_InitializedSession ==
    /\ [](/\ (cur = WeverseIE /\ result = "initialized") =>
                 ~Falsy(AUTH_TOKEN) /\ ~Falsy(WEV_DEVICE_ID)
          /\ (cur = WeverseIE /\ result = "login required") =>
                 Falsy(AUTH_TOKEN) /\ cookiejar.we2_access_token = None
          /\ ~Falsy(WEV_DEVICE_ID) =>
                 WEV_DEVICE_ID = IF device_arg # None THEN device_arg ELSE RandomUuid
          /\ \A r \in WvApiRequests :
                 /\ r.authorization = AUTH_TOKEN /\ ~Falsy(r.authorization)
                 /\ r.device = WEV_DEVICE_ID /\ ~Falsy(r.device))
    /\ [][/\ ~Falsy(AUTH_TOKEN) => AUTH_TOKEN' = AUTH_TOKEN
          /\ ~Falsy(WEV_DEVICE_ID) => WEV_DEVICE_ID' = WEV_DEVICE_ID]_vars

\* C12: every request of _call_api carries as wmsgpad the millisecond clock value ts
\* read by that call, and as wmd the base64 of the HMAC-SHA1, under the fixed key, of
\* the first 255 characters of the URL followed by that ts.
C12_SignedRequests ==
    \A r \in WvApiRequests :
        LET n == IF Len(r.url) < 255 THEN Len(r.url) ELSE 255
            msg == [k \in 1 .. n + 1 |-> IF k <= n THEN r.url[k] ELSE r.wmsgpad]
        IN  /\ r.wmsgpad \div 1000 = r.at
            /\ r.wmd = <<"base64",
                         [digest |-> "sha1",
                          key |-> "1b9cb6378d959b45714bec49971ade22e6e24e42",
                          msg |-> msg]>>

\* the inKey request for a URL of more than 255 characters, a second after the post
C12_Witness ==
    \E r \in WvApiRequests :
        r.kind = "inKey" /\ Len(r.url) > URL_LIMIT /\ r.at = 2 /\ r.wmsgpad = 2999

\* C13: every request of a WrestleUniverse call with auth=True (watch, watchArchive)
\* carries as Authorization the non-empty value of the 'token' cookie, no other
\* request of the extractors carries an Authorization header, and _real_extract
\* going on to the authenticated call with the cookie missing or empty raises the
\* login-required error and sends nothing.
C13_AuthorizedRequests ==
    /\ [](\A r \in inflight : r.ie \in WUIEs =>
             IF r.kind \in {"watch", "watchArchive"}
             THEN /\ r.authorization = cookiejar.token.value
                  /\ r.authorization # 0 /\ r.authorization # None
             ELSE r.authorization = None)
    /\ [][(cur \in WUIEs /\ pc \in {"metadata", "webpage"} /\ stage' # stage) =>
             IF cookiejar.token.value = 0
             THEN result' = "login required" /\ pc' = "idle" /\ inflight' = {}
             ELSE \E r \in inflight' :
                    /\ r.kind \in {"watch", "watchArchive"}
                    /\ r.authorization = cookiejar.token.value]_vars

\* the watch request of a VOD extraction is in flight, with the cookie's token
C13_Witness ==
    /\ cur = WUVOD /\ pc = "watch"
    /\ \E r \in inflight :
          r.kind = "watch" /\ r.authorization = 1 /\ r.data.ignoreDeviceRestriction

\* a step in which the response to the authenticated request is dealt with
WatchAnswered == cur \in WUIEs /\ pc \in {"watch", "watchArchive"} /\ pc' # pc
DownloadFailed ==
    {"Failed to download watch JSON", "Failed to download watch archive JSON"}

\* C16: _raise_proper_auth_error, called for a response without 'canWatch', never
\* returns: it raises the login-required error when the token cookie is missing
\* or empty, 'There was a problem with the token cookie' (not expected) when the
\* token has no exp or an exp of 0, 'Expired token' (expected) when exp <= now, and
\* 'This account does not have access to the requested content' (expected)
\* otherwise; nothing is requested after it.
C16_ProperAuthError ==
    [][(WatchAnswered /\ ~video_data'.canWatch /\ result' \notin DownloadFailed) =>
         LET c == cookiejar'.token
             e == auth_error'
         IN  /\ pc' = "idle" /\ result' = e.msg /\ inflight' = {}
             /\ IF c.value = 0
                THEN e.msg = "login required"
                ELSE IF c.exp = None \/ c.exp = 0
                THEN /\ e.msg = "There was a problem with the token cookie"
                     /\ ~e.expected
                ELSE IF c.exp <= now'
                THEN /\ e.msg = "Expired token. Refresh your cookies in browser and try again"
                     /\ e.expected
                ELSE /\ e.msg = "This account does not have access to the requested content"
                     /\ e.expected]_vars

\* a token whose exp is the present second has been reported as expired
C16_Witness ==
    /\ cur \in WUIEs /\ pc = "idle" /\ ~video_data.canWatch
    /\ cookiejar.token.value # 0 /\ cookiejar.token.exp = now
    /\ result = "Expired token. Refresh your cookies in browser and try again"
    /\ auth_error.expected

\* the requests that a step sends
Sent == inflight' \ inflight
\* the authenticated request of each extractor
WatchKind == [i \in WUIEs |-> IF i = WUPPV THEN "watchArchive" ELSE "watch"]

\* C17: both WrestleUniverse extractors ask for the metadata first (and for the
\* webpage only when that gave nothing), then send the authenticated watch or
\* watchArchive request, and only then ask for the HLS manifest; when 'canWatch' of
\* the response is missing or falsy an error is raised, no manifest is requested
\* and no key or iv is decrypted.
C17_WatchBeforeManifest ==
    /\ [](cur \in WUIEs =>
             /\ \A r \in inflight : r.kind = "m3u8" => video_data.canWatch
             /\ ~video_data.canWatch =>
                    /\ stage \notin {"m3u8", "decrypt", "formats"}
                    /\ info = NoInfo /\ result # "info dict")
    /\ [][cur' \in WUIEs =>
             /\ \A r \in Sent :
                   /\ r.ie = cur'
                   /\ r.kind = "metadata" => pc = "idle"
                   /\ r.kind = "webpage" => pc = "metadata"
                   /\ r.kind \in {"watch", "watchArchive"} =>
                         pc \in {"metadata", "webpage"} /\ r.kind = WatchKind[cur']
                   /\ r.kind = "m3u8" => pc = WatchKind[cur'] /\ video_data'.canWatch
                   /\ r.kind \in {"metadata", "webpage", "watch", "watchArchive", "m3u8"}
             /\ (WatchAnswered /\ ~video_data'.canWatch) =>
                   /\ pc' = "idle" /\ Sent = {} /\ inflight' = {}
                   /\ result' \notin {"info dict", "running"}
                   /\ stage' = stage]_vars

\* a VOD response that has a stream URL but no 'canWatch' ended the extraction
C17_Witness ==
    /\ cur = WUVOD /\ pc = "idle" /\ stage = "watch"
    /\ ~video_data.canWatch /\ video_data.hls_url
    /\ result = "This account does not have access to the requested content"
    /\ info = NoInfo

\* C18: every format the PPV extraction returns whose playlist tbr is not zero has
\* the floor of a quarter of that tbr (a whole number, the division applied once),
\* and a format without tbr, or with a tbr of 0, is returned as the playlist had it.
C18_QuarterTbr ==
    (cur = WUPPV /\ result = "info dict") =>
        /\ Len(info.formats) = Len(m3u8_formats)
        /\ \A k \in 1 .. Len(m3u8_formats) :
              LET t == m3u8_formats[k]
                  f == info.formats[k]
              IN  IF t = None \/ t = 0
                  THEN f = t
                  ELSE /\ f # None /\ f % 1000 = 0
                       /\ 4 * f <= t /\ t < 4 * f + 4000

\* a format of 6.5 in the playlist has been returned with a tbr of 1
C18_Witness ==
    /\ cur = WUPPV /\ result = "info dict"
    /\ \E k \in 1 .. Len(m3u8_formats) :
          m3u8_formats[k] = 6500 /\ info.formats[k] = 1000

\* C15: the playlist that the show extraction returns has as id the show id found on
\* the page and as entries one URL result for each video the API returned for that
\* show id and brand, in the reverse of the API's order; the extraction has sent
\* the webpage request and the show's videos request and no other, so no
\* entitlement and no MVPD request.
C15_ShowPlaylist ==
    /\ \A r \in inflight : (r.ie = GoIE /\ r.kind = "show videos") =>
          /\ r.brand = go.brand /\ r.show_id = go.show_id /\ r.video_id = "-1"
          /\ r.brand \in Brands /\ r.show_id \in ShowIds
    /\ (cur = GoIE /\ result = "playlist") =>
          /\ go.playlist_id = go.show_id /\ go.show_id \in ShowIds
          /\ go.requests = <<"go webpage", "show videos">>
          /\ Len(go.entries) = Len(go.videos)
          /\ \A k \in 1 .. Len(go.videos) :
                /\ go.videos[k].brand = go.brand /\ go.videos[k].show_id = go.show_id
                /\ go.entries[Len(go.videos) + 1 - k] =
                       [type |-> "url", ie_key |-> "Go", video |-> go.videos[k]]

\* a show of two videos: the second video of the API is the first entry
C15_Witness ==
    /\ cur = GoIE /\ result = "playlist" /\ go.playlist_id = "SH2"
    /\ Len(go.entries) = 2
    /\ go.entries[1].video.id = 2 /\ go.entries[2].video.id = 1

\* C19: _perform_login sends nothing when a token is held or a we2_access_token cookie
\* exists; otherwise it asks for the status of the e-mail first and sends the
\* credentials only when the answer has 'hasPassword'; it raises 'Invalid username
\* provided' when that is missing and 'Access denied. Wrong password?' when the
\* answer to the credentials has no accessToken, and _AUTH_TOKEN then stays unset;
\* when it succeeds _AUTH_TOKEN is the accessToken of the answer.
C19_PerformLogin ==
    [][/\ (pc = "idle" /\ (pc' = "email status" \/ result' = "logged in")) =>
             IF (AUTH_TOKEN # None /\ AUTH_TOKEN # 0) \/ cookiejar.we2_access_token # None
             THEN Sent = {} /\ inflight' = {} /\ pc' = "idle" /\ result' = "logged in"
             ELSE /\ pc' = "email status" /\ AUTH_TOKEN' = AUTH_TOKEN
                  /\ \E r \in Sent : Sent = {r} /\ r.kind = "email status"
       /\ \A r \in Sent :
             /\ r.kind = "email status" => pc = "idle"
             /\ r.kind = "credentials" => pc = "email status" /\ login'.hasPassword
       /\ (pc \in {"email status", "credentials"} /\ pc' # pc) =>
             IF pc' = "credentials"
             THEN AUTH_TOKEN' = AUTH_TOKEN
             ELSE /\ pc' = "idle" /\ inflight' = {}
                  /\ IF result' = "logged in"
                     THEN /\ pc = "credentials"
                          /\ login'.accessToken # None /\ login'.accessToken # 0
                          /\ AUTH_TOKEN' = login'.accessToken
                     ELSE /\ AUTH_TOKEN' = AUTH_TOKEN /\ AUTH_TOKEN' = None
                          /\ result' # "Unable to download JSON metadata" =>
                                result' = IF pc = "email status"
                                          THEN "Invalid username provided"
                                          ELSE "Access denied. Wrong password?"
       /\ (pc = "email status" /\ login'.hasPassword) => pc' = "credentials"]_vars

\* a login with e-mail and password has stored the token of the answer
C19_Witness ==
    /\ cur = WeverseIE /\ pc = "idle" /\ result = "logged in"
    /\ cookiejar.we2_access_token = None
    /\ login.hasPassword /\ login.accessToken = 3 /\ AUTH_TOKEN = 3

\* a URL https://vimeo.com/<digits>/<10 characters of 0-9a-f>, its id being the
\* first n characters of the path
OfTheForm(u, n) ==
    /\ u.scheme = "https" /\ u.host = "vimeo.com"
    /\ n >= 1 /\ Len(u.path) = n + 11
    /\ \A k \in 1 .. n : u.path[k] \in {"0", "1", "2", "3", "4", "5", "6", "7", "8", "9"}
    /\ u.path[n + 1] = "/"
    /\ \A k \in n + 2 .. n + 11 :
          u.path[k] \in {"0", "1", "2", "3", "4", "5", "6", "7", "8", "9",
                         "a", "b", "c", "d", "e", "f"}

\* C14: for every URL https://vimeo.com/<digits>/<10 characters of 0-9a-f> the
\* pattern of VimeoIE gives the first segment as id and the second as
\* unlisted_hash, also when the second segment has digits only.
C14_IdAndUnlistedHash ==
    \A n \in 1 .. Len(vimeo_url.path) :
        (cur = "Vimeo" /\ OfTheForm(vimeo_url, n)) =>
            /\ mobj.id = [k \in 1 .. n |-> vimeo_url.path[k]]
            /\ mobj.unlisted_hash = [k \in 1 .. 10 |-> vimeo_url.path[n + 1 + k]]

\* a URL whose hash has digits only: the id is the first segment
C14_Witness ==
    /\ cur = "Vimeo" /\ result = "suitable"
    /\ OfTheForm(vimeo_url, 2)
    /\ \A k \in 4 .. 13 : vimeo_url.path[k] \in {"0", "9"}
    /\ mobj.id = <<"5", "8">>
    /\ mobj.unlisted_hash = <<"9", "9", "9", "9", "9", "9", "9", "9", "9", "0">>

====
